---- MODULE Spec2Model ----
(***************************************************************************)
(* A model of cmd/goproxy/main.go: the assembly of the request handler     *)
(* (http.StripPrefix inside a context.WithTimeout wrapper inside the       *)
(* server), the server's listen/serve life cycle, and the file-URL         *)
(* resolver httpDirFS.Open.                                                *)
(*                                                                         *)
(* Strings are sequences of one-character strings.  Time is counted in     *)
(* units of the clock; a fetch timeout of T is T units.                    *)
(***************************************************************************)
EXTENDS Integers, Sequences, FiniteSets, TLC

\* ------------------------------------------------------------------ bounds

\* Longest request path (in characters / escape triplets) a client sends.
MaxPathLen == 2
\* The age up to which the clock of a deadline context is counted.
MaxAge == 2
\* Longest name handed to httpDirFS.Open.
MaxNameLen == 6

\* The requests that may be in flight at the same time.
Requests == {1, 2}

VARIABLES
    \* the flags read by main (lines 20-31)
    pathPrefix, fetchTimeout, tlsCertFile, tlsKeyFile,
    \* the server: the state of main ("Listening" while it is in its serve
    \* call), the serve call it made, that call's listener, the error the
    \* call returned, and whether main logged it
    server, served, listener, err, logged,
    \* per request: control position (the stage of the handler chain that
    \* runs), the URL the client sent, the URL of the request as it was passed
    \* down the chain, the response status, whether the client is gone
    \* (req.Context() cancelled), the context made by context.WithTimeout,
    \* which context the engine was handed, and counters of the calls of
    \* the engine, of context.WithTimeout and of cancel
    pc, url, passed, status, clientGone, ctx, engineCtx,
    engineCalls, timeoutCalls, cancelCalls,
    \* httpDirFS.Open: the platform's filepath.Separator, the argument, the
    \* outcome and the path given to os.Open
    separator, name, result, opened

flagVars   == <<pathPrefix, fetchTimeout, tlsCertFile, tlsKeyFile>>
serverVars == <<server, served, listener, err, logged>>
reqVars    == <<pc, url, passed, status, clientGone, ctx, engineCtx,
                engineCalls, timeoutCalls, cancelCalls>>
openVars   == <<separator, name, result, opened>>
vars       == <<flagVars, serverVars, reqVars, openVars>>

\* ------------------------------------------------------------- strings

RECURSIVE SeqsOfLen(_, _)
SeqsOfLen(S, n) ==
    IF n = 0 THEN {<<>>}
    ELSE {Append(s, c) : s \in SeqsOfLen(S, n - 1), c \in S}

SeqsUpTo(S, n) == UNION {SeqsOfLen(S, k) : k \in 0..n}

\* strings.HasPrefix
HasPrefix(s, prefix) ==
    /\ Len(prefix) <= Len(s)
    /\ SubSeq(s, 1, Len(prefix)) = prefix

\* strings.TrimPrefix: s without the prefix, or s itself
TrimPrefix(s, prefix) ==
    IF HasPrefix(s, prefix) THEN SubSeq(s, Len(prefix) + 1, Len(s)) ELSE s

\* ---------------------------------------------------------- request URLs

\* What a request path is written with: "/" and "a" as they are, and "%61",
\* the percent-encoding of "a" (an encoding a client may use but that
\* url.URL.EscapedPath would not produce).
RawAlphabet == {"/", "a", "%61"}

\* net/url unescape of one element of a raw path
Unescape(c) == IF c = "%61" THEN "a" ELSE c

\* The request-targets the server hands to the handler: the empty path (an
\* absolute-URI target without path) and the paths that begin with "/"
\* (http.ReadRequest rejects any other origin-form target).
RawPaths ==
    {<<>>} \cup {<<"/">> \o s : s \in SeqsUpTo(RawAlphabet, MaxPathLen - 1)}

\* url.URL.setPath: Path is the decoded path; RawPath is kept only when the
\* raw path is not the default encoding of Path.
ParseRequestURI(raw) ==
    LET path == [i \in 1..Len(raw) |-> Unescape(raw[i])]
    IN  [Path |-> path, RawPath |-> IF raw = path THEN <<>> ELSE raw]

NoURL == [Path |-> <<"?">>, RawPath |-> <<>>]

\* The values of -path-prefix tried.
Prefixes == {<<>>, <<"/">>, <<"/", "a">>}

\* The values of -fetch-timeout tried (in clock units).
FetchTimeouts == {-1, 0, 1}

\* ------------------------------------------------------- the handler chain

\* http.StripPrefix(prefix, h): h itself for an empty prefix, else a handler
\* around h.  A chain is written outermost stage first.
StripPrefixHandler(prefix, h) ==
    IF prefix = <<>> THEN h ELSE <<"StripPrefix">> \o h

\* The func(h http.Handler) http.Handler of lines 55-61 applied to h.
TimeoutHandler(h) == <<"WithTimeout">> \o h

\* Line 54 with >= in place of >.
TimeoutConfiguredGe == fetchTimeout >= 0

\* Line 54: if *fetchTimeout > 0
TimeoutConfigured == fetchTimeout > 0

\* Lines 50-62 with the two wrappings in the other order: the timeout
\* handler around g, http.StripPrefix around the result.
HandlerStripOutside ==
    LET g  == <<"goproxy">>
        h1 == IF fetchTimeout > 0 THEN TimeoutHandler(g) ELSE g
        h2 == IF pathPrefix # <<>> THEN StripPrefixHandler(pathPrefix, h1) ELSE h1
    IN  h2

\* Lines 50-62: handler := g; wrapped by StripPrefix when a prefix is set;
\* the result wrapped by the timeout handler when a timeout is set.
Handler ==
    LET g  == <<"goproxy">>
        h1 == IF pathPrefix # <<>> THEN StripPrefixHandler(pathPrefix, g) ELSE g
        h2 == IF TimeoutConfigured THEN TimeoutHandler(h1) ELSE h1
    IN  h2

IndexOf(stage) == CHOOSE i \in 1..Len(Handler) : Handler[i] = stage

\* The stage a stage calls as its h.
Inner(stage) == Handler[IndexOf(stage) + 1]

\* A return that leaves the timeout handler without its cancel() when
\* http.StripPrefix has answered not-found.
ReturnToSkippingCancel(stage) ==
    IF stage = "StripPrefix" THEN "done"
    ELSE IF \E j \in 1..IndexOf(stage) : Handler[j] = "WithTimeout"
         THEN "cancel" ELSE "done"

\* Where control is once the handler called by `stage`, or `stage` itself,
\* has returned: at the cancel() of line 59 when a timeout handler encloses
\* it, else back in the server.
ReturnTo(stage) ==
    IF \E j \in 1..IndexOf(stage) : Handler[j] = "WithTimeout"
    THEN "cancel" ELSE "done"

\* ------------------------------------------------------------- contexts

\* A context is its error ("nil" while it is live) and, while it is live,
\* the time its timer has been running.
NoCtx == [err |-> "none", age |-> 0]

\* context.WithTimeout(parent, d): a child of parent, cancelled at once with
\* parent's error when parent is done, and with DeadlineExceeded when the
\* deadline has already passed; otherwise live, with a timer of d.
WithTimeoutCtx(parentGone, d) ==
    [err |-> IF parentGone THEN "Canceled"
             ELSE IF d <= 0 THEN "DeadlineExceeded" ELSE "nil",
     age |-> 0]

\* A timer that fires without regard to its duration.
TimerDueAtOnce(c) == c.err = "nil"

\* The timer of a live context may fire once its duration has elapsed.
TimerDue(c) == c.err = "nil" /\ c.age >= fetchTimeout

\* Cancelling a context: the first error stays; the timer of a context that
\* was live is stopped and dropped.
CancelCtx(c, e) == IF c.err = "nil" THEN [err |-> e, age |-> 0] ELSE c

\* Line 57 with context.Background() as the parent: a cancellation of the
\* request's context does not reach the child.
PropagateCancelNone(c) == c

\* Line 57: the parent of the timeout context is req.Context(), so a
\* cancellation of the request's context reaches the child.
PropagateCancel(c) == CancelCtx(c, "Canceled")

\* The error of the context the engine was handed.
EngineCtxErr(r) ==
    IF engineCtx[r] = "timeout" THEN ctx[r].err
    ELSE IF clientGone[r] THEN "Canceled" ELSE "nil"

\* -------------------------------------------------------- http.StripPrefix

\* The test of http.StripPrefix with <= in place of <.
StripPrefixMatchesLe(prefix, u) ==
    LET p  == TrimPrefix(u.Path, prefix)
        rp == TrimPrefix(u.RawPath, prefix)
    IN  /\ Len(p) <= Len(u.Path)
        /\ (u.RawPath = <<>> \/ Len(rp) <= Len(u.RawPath))

\* The test of http.StripPrefix: the prefix was cut from Path and, when the
\* URL carries a RawPath, from RawPath too.
StripPrefixMatches(prefix, u) ==
    LET p  == TrimPrefix(u.Path, prefix)
        rp == TrimPrefix(u.RawPath, prefix)
    IN  /\ Len(p) < Len(u.Path)
        /\ (u.RawPath = <<>> \/ Len(rp) < Len(u.RawPath))

\* Cutting every leading occurrence of the prefix, not one.
RECURSIVE TrimPrefixAll(_, _)
TrimPrefixAll(s, prefix) ==
    IF prefix # <<>> /\ HasPrefix(s, prefix)
    THEN TrimPrefixAll(SubSeq(s, Len(prefix) + 1, Len(s)), prefix)
    ELSE s

StripPrefixURLAll(prefix, u) ==
    [Path |-> TrimPrefixAll(u.Path, prefix),
     RawPath |-> TrimPrefixAll(u.RawPath, prefix)]

\* The URL of the request http.StripPrefix hands to h.
StripPrefixURL(prefix, u) ==
    [Path |-> TrimPrefix(u.Path, prefix), RawPath |-> TrimPrefix(u.RawPath, prefix)]

\* ---------------------------------------------------------------- requests

\* Control passes to `stage` with a request of URL u and context c; entering
\* the engine is the call of g.ServeHTTP.
Call(r, stage, u, c) ==
    /\ pc' = [pc EXCEPT ![r] = stage]
    /\ passed' = [passed EXCEPT ![r] = u]
    /\ IF stage = "goproxy"
       THEN /\ engineCalls' = [engineCalls EXCEPT ![r] = @ + 1]
            /\ engineCtx' = [engineCtx EXCEPT ![r] =
                                IF c.err = "none" THEN "request" ELSE "timeout"]
       ELSE UNCHANGED <<engineCalls, engineCtx>>

\* The server reads a request and calls server.Handler.
Arrive(r, raw) ==
    /\ server = "Listening"
    /\ listener = "open"
    /\ pc[r] = "idle"
    /\ url' = [url EXCEPT ![r] = ParseRequestURI(raw)]
    /\ Call(r, Handler[1], ParseRequestURI(raw), NoCtx)
    /\ UNCHANGED <<status, clientGone, ctx, timeoutCalls, cancelCalls>>
    /\ UNCHANGED <<flagVars, serverVars, openVars>>

\* Lines 57-58: ctx, cancel := context.WithTimeout(req.Context(), *fetchTimeout)
\* and the call of h.ServeHTTP(rw, req.WithContext(ctx)).
WithTimeout(r) ==
    /\ server = "Listening"
    /\ pc[r] = "WithTimeout"
    /\ LET c == WithTimeoutCtx(clientGone[r], fetchTimeout)
       IN  /\ ctx' = [ctx EXCEPT ![r] = c]
           /\ Call(r, Inner("WithTimeout"), passed[r], c)
    /\ timeoutCalls' = [timeoutCalls EXCEPT ![r] = @ + 1]
    /\ UNCHANGED <<url, status, clientGone, cancelCalls>>
    /\ UNCHANGED <<flagVars, serverVars, openVars>>

\* The handler made by http.StripPrefix: h.ServeHTTP with the prefix cut, or
\* http.NotFound.
StripPrefix(r) ==
    /\ server = "Listening"
    /\ pc[r] = "StripPrefix"
    /\ IF StripPrefixMatches(pathPrefix, passed[r])
       THEN /\ Call(r, Inner("StripPrefix"),
                    StripPrefixURL(pathPrefix, passed[r]), ctx[r])
            /\ UNCHANGED status
       ELSE /\ status' = [status EXCEPT ![r] = 404]
            /\ pc' = [pc EXCEPT ![r] = ReturnTo("StripPrefix")]
            /\ UNCHANGED <<passed, engineCalls, engineCtx>>
    /\ UNCHANGED <<url, clientGone, ctx, timeoutCalls, cancelCalls>>
    /\ UNCHANGED <<flagVars, serverVars, openVars>>

\* The answers of the engine that are told apart.
EngineStatuses == {200, 404}

\* g.ServeHTTP returns, having answered.
EngineReturn(r, st) ==
    /\ server = "Listening"
    /\ pc[r] = "goproxy"
    /\ status' = [status EXCEPT ![r] = st]
    /\ pc' = [pc EXCEPT ![r] = ReturnTo("goproxy")]
    /\ UNCHANGED <<url, passed, clientGone, ctx, engineCtx,
                   engineCalls, timeoutCalls, cancelCalls>>
    /\ UNCHANGED <<flagVars, serverVars, openVars>>

\* Line 59: cancel(), after which the timeout handler returns.
Cancel(r) ==
    /\ server = "Listening"
    /\ pc[r] = "cancel"
    /\ ctx' = [ctx EXCEPT ![r] = CancelCtx(@, "Canceled")]
    /\ cancelCalls' = [cancelCalls EXCEPT ![r] = @ + 1]
    /\ pc' = [pc EXCEPT ![r] = "done"]
    /\ UNCHANGED <<url, passed, status, clientGone, engineCtx,
                   engineCalls, timeoutCalls>>
    /\ UNCHANGED <<flagVars, serverVars, openVars>>

\* The timer of the timeout context fires: at its deadline or, the runtime
\* promising no more than "not before", at any later time.
TimerFire(r) ==
    /\ server = "Listening"
    /\ TimerDue(ctx[r])
    /\ ctx' = [ctx EXCEPT ![r] = CancelCtx(@, "DeadlineExceeded")]
    /\ UNCHANGED <<pc, url, passed, status, clientGone, engineCtx,
                   engineCalls, timeoutCalls, cancelCalls>>
    /\ UNCHANGED <<flagVars, serverVars, openVars>>

\* The client of a request in flight goes away: the server cancels the
\* request's context, and with it the contexts derived from it.
ClientDisconnect(r) ==
    /\ server = "Listening"
    /\ pc[r] \notin {"idle", "done"}
    /\ ~clientGone[r]
    /\ clientGone' = [clientGone EXCEPT ![r] = TRUE]
    /\ ctx' = [ctx EXCEPT ![r] = PropagateCancel(@)]
    /\ UNCHANGED <<pc, url, passed, status, engineCtx,
                   engineCalls, timeoutCalls, cancelCalls>>
    /\ UNCHANGED <<flagVars, serverVars, openVars>>

\* One unit of time passes for every context whose timer is pending.
Tick ==
    /\ server = "Listening"
    /\ \E r \in Requests : ctx[r].err = "nil" /\ ctx[r].age < MaxAge
    /\ ctx' = [r \in Requests |->
                 IF ctx[r].err = "nil" /\ ctx[r].age < MaxAge
                 THEN [ctx[r] EXCEPT !.age = @ + 1] ELSE ctx[r]]
    /\ UNCHANGED <<pc, url, passed, status, clientGone, engineCtx,
                   engineCalls, timeoutCalls, cancelCalls>>
    /\ UNCHANGED <<flagVars, serverVars, openVars>>

\* No request has been read.
NoRequests ==
    /\ pc = [r \in Requests |-> "idle"]
    /\ url = [r \in Requests |-> NoURL]
    /\ passed = [r \in Requests |-> NoURL]
    /\ status = [r \in Requests |-> 0]
    /\ clientGone = [r \in Requests |-> FALSE]
    /\ ctx = [r \in Requests |-> NoCtx]
    /\ engineCtx = [r \in Requests |-> "none"]
    /\ engineCalls = [r \in Requests |-> 0]
    /\ timeoutCalls = [r \in Requests |-> 0]
    /\ cancelCalls = [r \in Requests |-> 0]

\* ------------------------------------------------------------ the server

\* The values of -tls-cert-file and of -tls-key-file tried.
CertFiles == {"", "cert.pem"}
KeyFiles == {"", "key.pem"}

\* Line 66 with || in place of &&.
UseTLSEither == tlsCertFile # "" \/ tlsKeyFile # ""

\* Line 66: *tlsCertFile != "" && *tlsKeyFile != ""
UseTLS == tlsCertFile # "" /\ tlsKeyFile # ""

\* Lines 66-70: the serve call main makes.
ServeCall == IF UseTLS THEN "ListenAndServeTLS" ELSE "ListenAndServe"

\* What a serve call that is listening may return: nil and
\* http.ErrServerClosed, which line 71 tells from the rest, a failure of the
\* accept loop and, for ListenAndServeTLS, a certificate or key that could
\* not be loaded.
ServeErrors(call) ==
    {"nil", "ErrServerClosed", "accept"}
        \cup (IF call = "ListenAndServeTLS" THEN {"loadKeyPair"} ELSE {})

\* Line 71 without the test for http.ErrServerClosed.
IsFatalClosed(e) == e # "nil"

\* Line 71: err != nil && !errors.Is(err, http.ErrServerClosed)
IsFatal(e) == e # "nil" /\ e # "ErrServerClosed"

\* Lines 71-75: main logs a fatal error and returns.
Exit(e) ==
    /\ err' = e
    /\ logged' = IsFatal(e)
    /\ server' = IF IsFatal(e) THEN "ShutdownError" ELSE "ShutdownClean"

\* Lines 64-70: main makes its serve call, which blocks.
ListenAndServe ==
    /\ server = "Init"
    /\ served' = ServeCall
    /\ server' = "Listening"
    /\ UNCHANGED <<listener, err, logged>>
    /\ UNCHANGED <<flagVars, reqVars, openVars>>

\* The net.Listen of the serve call binds the address.
Listen ==
    /\ server = "Listening"
    /\ listener = "none"
    /\ listener' = "open"
    /\ UNCHANGED <<server, served, err, logged>>
    /\ UNCHANGED <<flagVars, reqVars, openVars>>

\* The net.Listen of the serve call fails (the address is in use, say) and
\* the serve call returns its error.
ListenFail ==
    /\ server = "Listening"
    /\ listener = "none"
    /\ Exit("listen")
    /\ UNCHANGED <<served, listener>>
    /\ UNCHANGED <<flagVars, reqVars, openVars>>

\* The serve call returns e; main returns and the process, with every
\* request in flight, is gone.
ServeReturn(e) ==
    /\ server = "Listening"
    /\ listener = "open"
    /\ e \in ServeErrors(served)
    /\ Exit(e)
    /\ listener' = "closed"
    /\ pc' = [r \in Requests |-> "idle"]
    /\ url' = [r \in Requests |-> NoURL]
    /\ passed' = [r \in Requests |-> NoURL]
    /\ status' = [r \in Requests |-> 0]
    /\ clientGone' = [r \in Requests |-> FALSE]
    /\ ctx' = [r \in Requests |-> NoCtx]
    /\ engineCtx' = [r \in Requests |-> "none"]
    /\ engineCalls' = [r \in Requests |-> 0]
    /\ timeoutCalls' = [r \in Requests |-> 0]
    /\ cancelCalls' = [r \in Requests |-> 0]
    /\ UNCHANGED <<served, flagVars, openVars>>

\* --------------------------------------------------------- httpDirFS.Open

\* What a name handed to Open is written with.
NameAlphabet == {"/", "\\", "C", ":"}

Names == SeqsUpTo(NameAlphabet, MaxNameLen)

\* The values of filepath.Separator.
Separators == {"/", "\\"}

\* filepath.FromSlash
FromSlash(sep, s) ==
    IF sep = "/" THEN s
    ELSE [i \in 1..Len(s) |-> IF s[i] = "/" THEN sep ELSE s[i]]

\* path/filepath isSlash on a backslash platform
IsSlash(c) == c = "\\" \/ c = "/"

\* 'a' <= c <= 'z' || 'A' <= c <= 'Z'
IsLetter(c) == c = "C"

\* The first position from i on at which path has a slash, or Len(path) + 1.
RECURSIVE NextSlash(_, _)
NextSlash(path, i) ==
    IF i > Len(path) \/ IsSlash(path[i]) THEN i ELSE NextSlash(path, i + 1)

\* path/filepath volumeNameLen: 0 on a forward-slash platform; on a
\* backslash platform 2 for a drive letter and the length of \\server\share
\* for a UNC path.
VolumeNameLen(sep, path) ==
    IF sep = "/" \/ Len(path) < 2 THEN 0
    ELSE IF path[2] = ":" /\ IsLetter(path[1]) THEN 2
    ELSE IF /\ Len(path) >= 5
            /\ IsSlash(path[1]) /\ IsSlash(path[2]) /\ ~IsSlash(path[3])
         THEN LET k == NextSlash(path, 4)
              IN  IF k < Len(path) /\ ~IsSlash(path[k + 1])
                  THEN NextSlash(path, k + 1) - 1
                  ELSE 0
    ELSE 0

\* filepath.VolumeName
VolumeName(sep, path) == SubSeq(path, 1, VolumeNameLen(sep, path))

\* filepath.IsAbs
IsAbs(sep, path) ==
    IF sep = "/" THEN HasPrefix(path, <<"/">>)
    ELSE LET l == VolumeNameLen(sep, path)
         IN  /\ l # 0
             /\ l < Len(path)
             /\ IsSlash(path[l + 1])

\* Lines 84-86: the volume name Open turns down.
MissingDriveLetter(volumeName) ==
    volumeName = <<>> \/ HasPrefix(volumeName, <<"\\", "\\">>)

\* Lines 88-91
OpenAbs(sep, nm) ==
    IF ~IsAbs(sep, nm)
    THEN [result |-> "path is not absolute", opened |-> <<>>]
    ELSE [result |-> "os.Open", opened |-> nm]

\* Lines 79-92.  name[1:] of an empty name is a run-time panic.
OpenResult(sep, nm) ==
    LET translated == FromSlash(sep, nm)
    IN  IF sep = "\\"
        THEN IF translated = <<>>
             THEN [result |-> "panic", opened |-> <<>>]
             ELSE IF MissingDriveLetter(VolumeName(sep, Tail(translated)))
                  THEN [result |-> "file URL missing drive letter",
                        opened |-> <<>>]
                  ELSE OpenAbs(sep, Tail(translated))
        ELSE OpenAbs(sep, translated)

\* A call of httpDirFS.Open.
Open ==
    /\ result = "none"
    /\ result' = OpenResult(separator, name).result
    /\ opened' = OpenResult(separator, name).opened
    /\ UNCHANGED <<separator, name, flagVars, serverVars, reqVars>>

\* httpDirFS.Open is not being called.
NoOpen ==
    /\ separator = "/"
    /\ name = <<>>
    /\ result = "idle"
    /\ opened = <<>>

\* ------------------------------------------------------- specifications

\* The request pipeline: the server of any -path-prefix and -fetch-timeout,
\* serving plain HTTP, once main has assembled the handler and the listener
\* of its server.ListenAndServe is open.
Init ==
    /\ pathPrefix \in Prefixes
    /\ fetchTimeout \in FetchTimeouts
    /\ tlsCertFile = ""
    /\ tlsKeyFile = ""
    /\ server = "Listening"
    /\ served = "ListenAndServe"
    /\ listener = "open"
    /\ err = "none"
    /\ logged = FALSE
    /\ NoRequests
    /\ NoOpen

Next ==
    \/ \E r \in Requests, raw \in RawPaths : Arrive(r, raw)
    \/ \E r \in Requests : WithTimeout(r)
    \/ \E r \in Requests : StripPrefix(r)
    \/ \E r \in Requests, st \in EngineStatuses : EngineReturn(r, st)
    \/ \E r \in Requests : Cancel(r)
    \/ \E r \in Requests : TimerFire(r)
    \/ \E r \in Requests : ClientDisconnect(r)
    \/ Tick

Spec == Init /\ [][Next]_vars

\* The timers of the runtime fire and its clock runs: a timer that is due
\* fires, unless the context is cancelled first.
Fairness ==
    /\ WF_vars(Tick)
    /\ \A r \in Requests : WF_vars(TimerFire(r))

\* The pipeline under a positive -fetch-timeout, behind the prefix "/" (the
\* timeout handler is the same behind any prefix).
FairInit ==
    /\ Init
    /\ fetchTimeout > 0
    /\ pathPrefix = <<"/">>

FairSpec == FairInit /\ [][Next]_vars /\ Fairness

\* The life cycle of the server: main from its start, with any -tls-cert-file
\* and -tls-key-file, no -path-prefix and -fetch-timeout=0, so that the
\* handler is the engine itself.
ServerInit ==
    /\ pathPrefix = <<>>
    /\ fetchTimeout = 0
    /\ tlsCertFile \in CertFiles
    /\ tlsKeyFile \in KeyFiles
    /\ server = "Init"
    /\ served = "none"
    /\ listener = "none"
    /\ err = "none"
    /\ logged = FALSE
    /\ NoRequests
    /\ NoOpen

ServerNext ==
    \/ ListenAndServe
    \/ Listen
    \/ ListenFail
    \/ \E e \in ServeErrors(served) : ServeReturn(e)
    \/ \E r \in Requests, raw \in RawPaths : Arrive(r, raw)
    \/ \E r \in Requests, st \in EngineStatuses : EngineReturn(r, st)
    \/ \E r \in Requests : ClientDisconnect(r)

ServerSpec == ServerInit /\ [][ServerNext]_vars

\* httpDirFS.Open on every name, on either kind of platform.
OpenInit ==
    /\ pathPrefix = <<>>
    /\ fetchTimeout = 0
    /\ tlsCertFile = ""
    /\ tlsKeyFile = ""
    /\ server = "Listening"
    /\ served = "ListenAndServe"
    /\ listener = "open"
    /\ err = "none"
    /\ logged = FALSE
    /\ NoRequests
    /\ separator \in Separators
    /\ name \in Names
    /\ result = "none"
    /\ opened = <<>>

OpenNext == Open

OpenSpec == OpenInit /\ [][OpenNext]_vars

\* ----------------------------------------------------------------- claims

\* The request is between its arrival and the return of server.Handler.
InFlight(r) == pc[r] \notin {"idle", "done"}

\* The request was answered by the http.NotFound of http.StripPrefix.
Rejected(r) == status[r] = 404 /\ engineCalls[r] = 0

\* s without its first n elements
Drop(s, n) == SubSeq(s, n + 1, Len(s))

\* C1: with a non-empty prefix P, a request whose path does not start with
\* P never reaches the engine and is answered not-found, whatever the fetch
\* timeout and whatever the other requests do.
C1_MismatchNotFound ==
    \A r \in Requests :
        (/\ pathPrefix # <<>>
         /\ pc[r] # "idle"
         /\ ~HasPrefix(url[r].Path, pathPrefix))
        => /\ engineCalls[r] = 0
           /\ pc[r] # "goproxy"
           /\ pc[r] \in {"cancel", "done"} => status[r] = 404

\* A mismatching request has been answered not-found under a fetch timeout
\* while the engine serves another request.
C1_Witness ==
    \E r, q \in Requests :
        /\ pathPrefix # <<>> /\ fetchTimeout > 0
        /\ pc[r] = "done" /\ ~HasPrefix(url[r].Path, pathPrefix)
        /\ status[r] = 404 /\ engineCalls[r] = 0
        /\ q # r /\ pc[q] = "goproxy"

\* C2 as stated: with a non-empty prefix P, a request whose path starts with
\* P reaches the engine exactly once, with one leading P cut from the path;
\* without a prefix the engine sees the path unchanged.
C2_Original ==
    \A r \in Requests :
        /\ (/\ pathPrefix # <<>>
            /\ pc[r] \in {"cancel", "done"}
            /\ HasPrefix(url[r].Path, pathPrefix))
           => /\ engineCalls[r] = 1
              /\ passed[r].Path = Drop(url[r].Path, Len(pathPrefix))
        /\ (pathPrefix = <<>> /\ pc[r] \in {"cancel", "done"})
           => engineCalls[r] = 1 /\ passed[r].Path = url[r].Path

\* The URL's path and, when the URL carries a raw path, its raw path start
\* with the prefix.
StartsWithPrefix(u) ==
    /\ HasPrefix(u.Path, pathPrefix)
    /\ u.RawPath = <<>> \/ HasPrefix(u.RawPath, pathPrefix)

\* C2 amended: with a non-empty prefix P, a request whose path starts with P
\* and whose raw (escaped) path, if the URL carries one, starts with P too
\* reaches the engine exactly once, with exactly one leading P cut from the
\* path (and from the raw path); a request whose path starts with P but
\* whose raw path does not is answered not-found without reaching the
\* engine; without a prefix the engine sees the URL unchanged.
C2_StripOnce ==
    \A r \in Requests :
        /\ engineCalls[r] <= 1
        /\ (pathPrefix # <<>> /\ pc[r] # "idle" /\ StartsWithPrefix(url[r]))
           => /\ pc[r] \in {"goproxy", "cancel", "done"}
                 => /\ engineCalls[r] = 1
                    /\ passed[r].Path = Drop(url[r].Path, Len(pathPrefix))
                    /\ passed[r].RawPath
                          = Drop(url[r].RawPath,
                                 IF url[r].RawPath = <<>> THEN 0
                                 ELSE Len(pathPrefix))
              /\ pc[r] \notin {"goproxy", "cancel", "done"}
                 => engineCalls[r] = 0
        /\ (/\ pathPrefix # <<>> /\ pc[r] # "idle"
            /\ HasPrefix(url[r].Path, pathPrefix)
            /\ ~StartsWithPrefix(url[r]))
           => /\ engineCalls[r] = 0
              /\ pc[r] \in {"cancel", "done"} => status[r] = 404
        /\ (pathPrefix = <<>> /\ pc[r] # "idle")
           => /\ pc[r] \in {"goproxy", "cancel", "done"}
                 => engineCalls[r] = 1 /\ passed[r] = url[r]
              /\ pc[r] \notin {"goproxy", "cancel", "done"}
                 => engineCalls[r] = 0

\* A request for P+P has been served: the engine saw P.
C2_Witness ==
    \E r \in Requests :
        /\ pathPrefix = <<"/">>
        /\ url[r].Path = <<"/", "/">>
        /\ pc[r] = "done" /\ engineCalls[r] = 1
        /\ passed[r].Path = <<"/">>

\* C3: with a fetch timeout of zero or less no timeout context is ever
\* made: the engine is handed the request's own context, which is
\* cancelled only by the client's going away.
C3_NoDeadline ==
    fetchTimeout <= 0 =>
        \A r \in Requests :
            /\ ctx[r] = NoCtx
            /\ timeoutCalls[r] = 0
            /\ pc[r] # "WithTimeout"
            /\ engineCalls[r] > 0 => engineCtx[r] = "request"
            /\ pc[r] = "goproxy" =>
                   (EngineCtxErr(r) # "nil" <=> clientGone[r])

\* With a fetch timeout of zero the engine runs under the request's own,
\* live context.
C3_Witness ==
    \E r \in Requests :
        /\ fetchTimeout = 0
        /\ pc[r] = "goproxy" /\ engineCtx[r] = "request"
        /\ ~clientGone[r] /\ EngineCtxErr(r) = "nil"

\* C7: main makes the TLS serve call exactly when both the certificate path
\* and the key path are non-empty; with only one of them, or none, it makes
\* the plain call, which cannot fail on loading a certificate or key.
C7_TLSIffBoth ==
    server # "Init" =>
        /\ served = "ListenAndServeTLS"
              <=> (tlsCertFile # "" /\ tlsKeyFile # "")
        /\ served = "ListenAndServe"
              <=> (tlsCertFile = "" \/ tlsKeyFile = "")
        /\ err = "loadKeyPair" => (tlsCertFile # "" /\ tlsKeyFile # "")

\* With a certificate path and no key path the server serves plain HTTP
\* and has answered a request.
C7_Witness ==
    /\ tlsCertFile # "" /\ tlsKeyFile = ""
    /\ server = "Listening" /\ listener = "open"
    /\ served = "ListenAndServe"
    /\ \E r \in Requests : pc[r] = "done" /\ status[r] = 200

\* C9: with a positive fetch timeout cancel is called exactly once for each
\* request, after the handler inside the timeout handler has returned and
\* before the timeout handler returns, whether the request was served or
\* rejected as not-found; so no finished request has a live timeout context
\* and there are never more live timeout contexts than requests in flight.
C9_CancelOnce ==
    /\ \A r \in Requests :
          /\ fetchTimeout > 0 =>
                /\ pc[r] = "done" => cancelCalls[r] = 1 /\ timeoutCalls[r] = 1
                /\ pc[r] # "done" => cancelCalls[r] = 0
          /\ ctx[r].err = "nil" => InFlight(r)
    /\ Cardinality({r \in Requests : ctx[r].err = "nil"})
          <= Cardinality({r \in Requests : InFlight(r)})

\* One request was rejected as not-found and its context cancelled while
\* the engine serves another under a live timeout context.
C9_Witness ==
    \E r, q \in Requests :
        /\ fetchTimeout > 0
        /\ pc[r] = "done" /\ Rejected(r) /\ cancelCalls[r] = 1
        /\ ctx[r].err = "Canceled"
        /\ q # r /\ pc[q] = "goproxy" /\ ctx[q].err = "nil"

\* C4: with a positive fetch timeout the context the engine is handed is
\* the timeout context, a child of the request's context: it is cancelled
\* as soon as the client has gone away, it becomes cancelled under a
\* running or waiting handler only by the client's going away or once the
\* timeout has elapsed since it was made, and under an engine that keeps
\* running past the timeout it does become cancelled.
C4_DerivedContext ==
    /\ [](\A r \in Requests :
            (fetchTimeout > 0 /\ pc[r] = "goproxy")
            => /\ engineCtx[r] = "timeout"
               /\ clientGone[r] => ctx[r].err # "nil")
    /\ [][\A r \in Requests :
            /\ (ctx[r].err = "nil" /\ ctx'[r].err # "nil" /\ pc'[r] # "done")
               => (clientGone'[r] \/ ctx[r].age >= fetchTimeout)
            /\ (ctx[r].err = "none" /\ ctx'[r].err \notin {"none", "nil"})
               => clientGone[r]]_vars
    /\ \A r \in Requests :
          (pc[r] = "goproxy" /\ ctx[r].err = "nil"
              /\ ctx[r].age >= fetchTimeout)
          ~> (pc[r] # "goproxy" \/ ctx[r].err # "nil")

\* The client has gone away before the timer fired and the engine, still
\* running, has a cancelled timeout context.
C4_Witness ==
    \E r \in Requests :
        /\ fetchTimeout > 0
        /\ pc[r] = "goproxy" /\ engineCtx[r] = "timeout"
        /\ clientGone[r] /\ ctx[r].err = "Canceled"

\* C5 as stated: an engine that is still waiting, its client still there,
\* has seen its context cancelled before twice the timeout has elapsed.
C5_Original ==
    \A r \in Requests :
        (fetchTimeout > 0 /\ pc[r] = "goproxy" /\ ~clientGone[r]
            /\ ctx[r].age >= 2 * fetchTimeout)
        => ctx[r].err # "nil"

\* C5 amended: with a positive fetch timeout T the deadline never cancels
\* a context before T has elapsed since the context was made, and an
\* engine that keeps waiting does see its context cancelled; nothing bounds
\* by 2T how late the timer fires.
C5_Deadline ==
    /\ [][\A r \in Requests :
            (ctx'[r].err = "DeadlineExceeded" /\ ctx[r].err # "DeadlineExceeded")
            => /\ fetchTimeout > 0
               /\ ctx[r].err = "nil"
               /\ ctx[r].age >= fetchTimeout]_vars
    /\ \A r \in Requests :
          (fetchTimeout > 0 /\ pc[r] = "goproxy")
          ~> (pc[r] # "goproxy" \/ ctx[r].err # "nil")

\* The deadline has cancelled the context of an engine that is still
\* running and whose client is still there.
C5_Witness ==
    \E r \in Requests :
        /\ fetchTimeout > 0
        /\ pc[r] = "goproxy" /\ ~clientGone[r]
        /\ ctx[r].err = "DeadlineExceeded"

C6_FailsClosed ==
    result # "none" =>
        LET translated == FromSlash(separator, name)
            stripped == IF separator = "\\" /\ translated # <<>>
                        THEN Tail(translated) ELSE translated
            volume == VolumeName(separator, stripped)
            gate == /\ IsAbs(separator, stripped)
                    /\ separator = "\\" =>
                          /\ name # <<>>
                          /\ volume # <<>>
                          /\ ~HasPrefix(volume, <<"\\", "\\">>)
        IN  IF gate
            THEN result = "os.Open" /\ opened = stripped
            ELSE /\ result \in {"file URL missing drive letter",
                                "path is not absolute"}
                 /\ opened = <<>>

\* C10: main goes from Init into its serve call (Listening) once and from
\* there to ShutdownClean or ShutdownError only: clean, with nothing
\* logged, exactly when the serve call returned nil or
\* http.ErrServerClosed, in error, with the error logged, for every other
\* error of listening or serving; nothing leaves a terminal state.
C10_Lifecycle ==
    /\ [](/\ server \in {"Init", "Listening", "ShutdownClean", "ShutdownError"}
          /\ server \in {"Init", "Listening"} => err = "none" /\ ~logged
          /\ server = "ShutdownClean"
                <=> err \in {"nil", "ErrServerClosed"}
          /\ server = "ShutdownClean" => ~logged
          /\ server = "ShutdownError"
                <=> err \in {"listen", "accept", "loadKeyPair"}
          /\ server = "ShutdownError" => logged)
    /\ [][/\ server' # server
             => <<server, server'>> \in
                   {<<"Init", "Listening">>,
                    <<"Listening", "ShutdownClean">>,
                    <<"Listening", "ShutdownError">>}
          /\ server \in {"ShutdownClean", "ShutdownError"}
             => UNCHANGED vars]_vars

\* The serve call has returned http.ErrServerClosed and main has ended
\* cleanly, nothing logged.
C10_Witness ==
    /\ server = "ShutdownClean"
    /\ err = "ErrServerClosed"
    /\ ~logged

====
